---------------------------- MODULE Spec2Model ----------------------------
(***************************************************************************)
(* Model of the metadata crawler engine (class MetadataCrawler of          *)
(* metadata_crawler.py): the metadata sequence, the lineage graph, the     *)
(* data dictionary derived from the sequence, and the spreadsheet export.  *)
(*                                                                         *)
(* Python values are represented as follows.                               *)
(*   str        a TLA+ string (Len, \o and SubSeq act on its characters)   *)
(*   None       the empty tuple <<>>; a present optional value x is <<x>>  *)
(*   dict       a function; its domain is the key set                      *)
(*   list       a sequence                                                 *)
(*   nx.DiGraph a record [nodes, edges]: nodes maps a node name to its     *)
(*              attribute dict, edges maps a pair <<u, v>> to its          *)
(*              attribute dict                                             *)
(* A method is an operator from the object (self) and its arguments to a   *)
(* record [self |-> the object after the call, ret |-> the returned        *)
(* value, raised |-> whether an exception left the method].                *)
(***************************************************************************)
EXTENDS Integers, Sequences, FiniteSets, TLC

-----------------------------------------------------------------------------
(* Bounds of the model *)

\* number of crawl operations in one behaviour
MaxCrawls == 2

-----------------------------------------------------------------------------
(* Python built-ins used by the crawler *)

None == <<>>

Some(x) == <<x>>

Min(a, b) == IF a < b THEN a ELSE b

\* s[:n]
Truncate(s, n) == SubSeq(s, 1, Min(n, Len(s)))

\* s[i:] with i counted from 0
From(s, i) == SubSeq(s, i + 1, Len(s))

CharAt(s, i) == SubSeq(s, i, i)

\* s.rfind(c) + 1, searched in s[:i]: the 1-based position of the last c, or 0
RECURSIVE RFind(_, _, _)
RFind(s, c, i) ==
    IF i = 0 THEN 0
    ELSE IF CharAt(s, i) = c THEN i
    ELSE RFind(s, c, i - 1)

\* s.split(sep)[-1]
LastSegment(s, sep) == From(s, RFind(s, sep, Len(s)))

UpperCase == "ABCDEFGHIJKLMNOPQRSTUVWXYZ"

LowerCase == "abcdefghijklmnopqrstuvwxyz"

LowerChar(c) ==
    IF \E i \in 1..Len(UpperCase) : CharAt(UpperCase, i) = c
    THEN CharAt(LowerCase, CHOOSE i \in 1..Len(UpperCase) : CharAt(UpperCase, i) = c)
    ELSE c

\* s.lower()
RECURSIVE Lower(_)
Lower(s) == IF Len(s) = 0 THEN "" ELSE LowerChar(Head(s)) \o Lower(Tail(s))

\* os.path.basename(p)
basename(p) == From(p, RFind(p, "/", Len(p)))

\* os.path.splitext(p)[1]: the text from the last dot of the last path
\* component, unless that component has only leading dots before it
splitext(p) ==
    LET sepIndex == RFind(p, "/", Len(p))
        dotIndex == RFind(p, ".", Len(p))
    IN  IF dotIndex > sepIndex
           /\ \E i \in (sepIndex + 1)..(dotIndex - 1) : CharAt(p, i) # "."
        THEN From(p, dotIndex - 1)
        ELSE ""

\* dict.update / item assignment: the entries of e replace those of d
Update(d, e) == e @@ d

EmptyDict == <<>>

SetItem(d, key, val) == (key :> val) @@ d

\* for i in 1..Len(keys): d[keys[i]] = vals[i] -- of two assignments to one
\* key the later one stays
AssignAll(d, keys, vals) ==
    LET n == Len(keys)
        LastOf(key) == CHOOSE i \in 1..n :
                          keys[i] = key /\ \A j \in (i + 1)..n : keys[j] # key
    IN  [key \in {keys[i] : i \in 1..n} |-> vals[LastOf(key)]] @@ d

-----------------------------------------------------------------------------
(* networkx.DiGraph, as far as the crawler uses it *)

\* nx.DiGraph()
DiGraph == [nodes |-> EmptyDict, edges |-> EmptyDict]

\* (mutant) an existing node keeps its attributes
add_node_once(G, n, attr) ==
    IF n \in DOMAIN G.nodes THEN G ELSE [G EXCEPT !.nodes = SetItem(@, n, attr)]

\* G.add_node(n, **attr): a new node gets attr, an existing one is updated
add_node(G, n, attr) ==
    [G EXCEPT !.nodes = SetItem(@, n, IF n \in DOMAIN @ THEN Update(@[n], attr) ELSE attr)]

\* (mutant) the graph is undirected: the edge is stored in both directions
add_edge_undirected(G, u, v, attr) ==
    LET withU == IF u \in DOMAIN G.nodes THEN G.nodes ELSE SetItem(G.nodes, u, <<>>)
        withV == IF v \in DOMAIN withU THEN withU ELSE SetItem(withU, v, <<>>)
    IN  [nodes |-> withV,
         edges |-> SetItem(SetItem(G.edges, <<u, v>>, attr), <<v, u>>, attr)]

\* G.add_edge(u, v, **attr): missing end points are created without
\* attributes; the edge u -> v is created or its attributes updated
add_edge(G, u, v, attr) ==
    LET withU == IF u \in DOMAIN G.nodes THEN G.nodes ELSE SetItem(G.nodes, u, EmptyDict)
        withV == IF v \in DOMAIN withU THEN withU ELSE SetItem(withU, v, EmptyDict)
    IN  [nodes |-> withV,
         edges |-> SetItem(G.edges, <<u, v>>,
                           IF <<u, v>> \in DOMAIN G.edges
                           THEN Update(G.edges[<<u, v>>], attr) ELSE attr)]

-----------------------------------------------------------------------------
(* The crawler object *)

\* MetadataCrawler.__init__
MetadataCrawler ==
    [metadata_repo   |-> <<>>,
     lineage_graph   |-> DiGraph,
     data_dictionary |-> EmptyDict]

\* outcome of a method body: the object, the value returned (None while an
\* exception is in flight) and the exception text str(e), if one was raised
Returned(self, ret) == [self |-> self, ret |-> Some(ret), exc |-> None]

Raised(self, e) == [self |-> self, ret |-> None, exc |-> Some(e)]

\* str(e) of the exception the body raised
ExcText(body) == body.exc[1]

\* try: <body> except Exception as e: return <handled>
\* handled is the value of the except clause, read only when the body raised;
\* caught is the exception the body raised, raised whether one leaves the method
TryExcept(body, handled) ==
    IF body.exc = None
    THEN [self |-> body.self, ret |-> body.ret[1], raised |-> FALSE, caught |-> None]
    ELSE [self |-> body.self, ret |-> handled, raised |-> FALSE, caught |-> body.exc]

\* (mutant) self.metadata_repo = [record]
AppendRecordAssign(self, record) == [self EXCEPT !.metadata_repo = <<record>>]

\* (mutant) self.metadata_repo.insert(0, record)
AppendRecordFront(self, record) == [self EXCEPT !.metadata_repo = <<record>> \o @]

\* self.metadata_repo.append(record)
AppendRecord(self, record) == [self EXCEPT !.metadata_repo = Append(@, record)]

-----------------------------------------------------------------------------
(* The databases the crawler is pointed at: what the SQLAlchemy inspector *)
(* reports for a connection string                                        *)

\* one entry of inspector.get_columns(table_name)
Col(name, type, nullable, default) ==
    [name |-> name, type |-> type, nullable |-> nullable, default |-> default]

\* one entry of inspector.get_foreign_keys(table_name)
Fk(column, referred_table, referred_column) ==
    [constrained_columns |-> <<column>>, referred_table |-> referred_table,
     referred_columns |-> <<referred_column>>]

\* one entry of inspector.get_indexes(table_name)
Idx(name, column) == [name |-> name, column_names |-> <<column>>, unique |-> FALSE]

DefaultNow == Some("CURRENT_TIMESTAMP")

\* the database written by create_sample_database
SampleDb ==
    [connection |-> "sqlite:///sample_data.db",
     db_type |-> "sqlite",
     faults |-> {0, 3},
     table_names |-> <<"customers", "order_items", "orders", "products", "reviews">>,
     tables |->
      [customers |->
         [columns |-> << Col("customer_id", "INTEGER", TRUE, None),
                         Col("first_name", "TEXT", FALSE, None),
                         Col("last_name", "TEXT", FALSE, None),
                         Col("email", "TEXT", FALSE, None),
                         Col("phone", "TEXT", TRUE, None),
                         Col("created_at", "TIMESTAMP", TRUE, DefaultNow),
                         Col("updated_at", "TIMESTAMP", TRUE, DefaultNow) >>,
          primary_keys |-> <<"customer_id">>,
          foreign_keys |-> <<>>,
          indexes |-> << Idx("idx_customer_email", "email") >>],
       products |->
         [columns |-> << Col("product_id", "INTEGER", TRUE, None),
                         Col("product_name", "TEXT", FALSE, None),
                         Col("description", "TEXT", TRUE, None),
                         Col("category", "TEXT", TRUE, None),
                         Col("price", "REAL", FALSE, None),
                         Col("stock_quantity", "INTEGER", TRUE, Some("0")),
                         Col("created_at", "TIMESTAMP", TRUE, DefaultNow) >>,
          primary_keys |-> <<"product_id">>,
          foreign_keys |-> <<>>,
          indexes |-> <<>>],
       orders |->
         [columns |-> << Col("order_id", "INTEGER", TRUE, None),
                         Col("customer_id", "INTEGER", FALSE, None),
                         Col("order_date", "TIMESTAMP", TRUE, DefaultNow),
                         Col("total_amount", "REAL", FALSE, None),
                         Col("status", "TEXT", TRUE, None),
                         Col("shipping_address", "TEXT", TRUE, None) >>,
          primary_keys |-> <<"order_id">>,
          foreign_keys |-> << Fk("customer_id", "customers", "customer_id") >>,
          indexes |-> << Idx("idx_order_customer", "customer_id") >>],
       order_items |->
         [columns |-> << Col("order_item_id", "INTEGER", TRUE, None),
                         Col("order_id", "INTEGER", FALSE, None),
                         Col("product_id", "INTEGER", FALSE, None),
                         Col("quantity", "INTEGER", FALSE, None),
                         Col("unit_price", "REAL", FALSE, None),
                         Col("subtotal", "REAL", FALSE, None) >>,
          primary_keys |-> <<"order_item_id">>,
          foreign_keys |-> << Fk("order_id", "orders", "order_id"),
                              Fk("product_id", "products", "product_id") >>,
          indexes |-> << Idx("idx_order_items_order", "order_id") >>],
       reviews |->
         [columns |-> << Col("review_id", "INTEGER", TRUE, None),
                         Col("product_id", "INTEGER", FALSE, None),
                         Col("customer_id", "INTEGER", FALSE, None),
                         Col("rating", "INTEGER", TRUE, None),
                         Col("review_text", "TEXT", TRUE, None),
                         Col("review_date", "TIMESTAMP", TRUE, DefaultNow) >>,
          primary_keys |-> <<"review_id">>,
          foreign_keys |-> << Fk("product_id", "products", "product_id"),
                              Fk("customer_id", "customers", "customer_id") >>,
          indexes |-> << Idx("idx_reviews_product", "product_id") >>]]]

\* a second database: a table named like one of SampleDb with another column
\* type, a self-reference, two foreign keys to one table, two tables that
\* reference each other, and a reference to a table the inspector does not list
CrmDb ==
    [connection |-> "postgresql://crm/main",
     db_type |-> "postgresql",
     faults |-> {2},
     table_names |-> <<"customers", "tickets">>,
     tables |->
      [customers |->
         [columns |-> << Col("customer_id", "BIGINT", FALSE, None),
                         Col("email", "VARCHAR(255)", TRUE, None),
                         Col("referrer_id", "BIGINT", TRUE, None),
                         Col("last_ticket_id", "BIGINT", TRUE, None) >>,
          primary_keys |-> <<"customer_id">>,
          foreign_keys |-> << Fk("referrer_id", "customers", "customer_id"),
                              Fk("last_ticket_id", "tickets", "ticket_id") >>,
          indexes |-> <<>>],
       tickets |->
         [columns |-> << Col("ticket_id", "BIGINT", FALSE, None),
                         Col("opened_by", "BIGINT", FALSE, None),
                         Col("closed_by", "BIGINT", TRUE, None),
                         Col("agent_id", "BIGINT", TRUE, None) >>,
          primary_keys |-> <<"ticket_id">>,
          foreign_keys |-> << Fk("opened_by", "customers", "customer_id"),
                              Fk("closed_by", "customers", "customer_id"),
                              Fk("agent_id", "agents", "agent_id") >>,
          indexes |-> <<>>]]]

Databases == <<SampleDb, CrmDb>>

\* A crawl either runs to its end or an introspection call raises.  A fault
\* [at |-> k, error |-> e] makes the call for the k-th table raise e; k = 0
\* is a failure of create_engine, inspect or get_table_names.
NoFault == [at |-> -1, error |-> ""]

\* the text of the exception: str(e) is empty for an exception raised without
\* arguments, as the NotImplementedError of a dialect without the call
DbFaults(db) ==
    {NoFault} \cup
    {[at |-> k, error |-> IF k = 0 THEN "unable to open database file" ELSE ""] : k \in db.faults}

-----------------------------------------------------------------------------
(* MetadataCrawler.crawl_database *)

\* the loop over inspector.get_columns(table_name): the column_info list of
\* the table, and the entries written to self.data_dictionary
ColumnInfos(columns) ==
    [i \in 1..Len(columns) |->
        [name |-> columns[i].name,
         type |-> columns[i].type,
         nullable |-> columns[i].nullable,
         default |-> columns[i].default,
         autoincrement |-> FALSE]]

ColumnLoop(data_dictionary, table_name, columns, connection_string) ==
    LET dict_key == [i \in 1..Len(columns) |-> table_name \o "." \o columns[i].name]
        entry == [i \in 1..Len(columns) |->
                     [table |-> table_name,
                      column |-> columns[i].name,
                      data_type |-> columns[i].type,
                      nullable |-> columns[i].nullable,
                      source |-> connection_string]]
    IN  AssignAll(data_dictionary, dict_key, entry)

\* the loop over table_info['foreign_keys']
RECURSIVE ForeignKeyLoop(_, _, _, _)
ForeignKeyLoop(G, table_name, foreign_keys, i) ==
    IF i > Len(foreign_keys) THEN G
    ELSE LET ref_table == foreign_keys[i].referred_table
         IN  ForeignKeyLoop(add_edge(G, table_name, ref_table, [relationship |-> "foreign_key"]),
                            table_name, foreign_keys, i + 1)

\* one iteration of the loop over the tables
ProcessTable(st, inspector, connection_string, table_name) ==
    LET reported == inspector.tables[table_name]
        table_info == [name |-> table_name,
                       columns |-> ColumnInfos(reported.columns),
                       primary_keys |-> reported.primary_keys,
                       foreign_keys |-> reported.foreign_keys,
                       indexes |-> reported.indexes]
        withNode == add_node(st.self.lineage_graph, table_name,
                             [node_type |-> "table", source |-> "database"])
        withEdges == ForeignKeyLoop(withNode, table_name, table_info.foreign_keys, 1)
    IN  [self |-> [st.self EXCEPT
                     !.data_dictionary = ColumnLoop(@, table_name, reported.columns,
                                                    connection_string),
                     !.lineage_graph = withEdges],
         db_metadata |-> [st.db_metadata EXCEPT !.tables = Append(@, table_info)],
         exc |-> None]

\* the loop over inspector.get_table_names(), left by the exception of fault
RECURSIVE TableLoop(_, _, _, _, _)
TableLoop(st, inspector, connection_string, fault, i) ==
    IF i > Len(inspector.table_names) THEN st
    ELSE IF fault.at = i THEN [st EXCEPT !.exc = Some(fault.error)]
    ELSE TableLoop(ProcessTable(st, inspector, connection_string, inspector.table_names[i]),
                   inspector, connection_string, fault, i + 1)

\* (mutant) the handler returns str(e) alone
DatabaseCrawlErrorBare(e) == <<FALSE, e>>

\* except Exception as e: return False, f"Database crawl error: {str(e)}"
DatabaseCrawlError(e) == <<FALSE, "Database crawl error: " \o e>>

\* the body of the try statement
CrawlDatabaseBody(self, connection_string, db_type, inspector, fault, now) ==
    IF fault.at = 0 THEN Raised(self, fault.error)
    ELSE LET db_metadata == [source_type |-> "database",
                             db_type |-> db_type,
                             connection |-> connection_string,
                             tables |-> <<>>,
                             timestamp |-> now]
             st == TableLoop([self |-> self, db_metadata |-> db_metadata, exc |-> None],
                             inspector, connection_string, fault, 1)
         IN  IF st.exc # None THEN Raised(st.self, st.exc[1])
             ELSE Returned(AppendRecord(st.self, st.db_metadata),
                           <<TRUE, "Successfully crawled "
                                      \o ToString(Len(st.db_metadata.tables)) \o " tables">>)

crawl_database(self, connection_string, db_type, inspector, fault, now) ==
    LET body == CrawlDatabaseBody(self, connection_string, db_type, inspector, fault, now)
    IN  TryExcept(body, DatabaseCrawlError(ExcText(body)))

-----------------------------------------------------------------------------
(* JSON data as json.load / response.json() return it *)

\* a dict is the sequence of its <<key, value>> items in iteration order
JDict(items) == [type |-> "dict", items |-> items]

JList(elems) == [type |-> "list", elems |-> elems]

JStr(s) == [type |-> "str", value |-> s]

JInt(n) == [type |-> "int", value |-> n]

JBool(b) == [type |-> "bool", value |-> b]

JNull == [type |-> "NoneType"]

\* bool(value)
Truthy(v) ==
    CASE v.type = "dict" -> Len(v.items) > 0
      [] v.type = "list" -> Len(v.elems) > 0
      [] v.type = "str"  -> Len(v.value) > 0
      [] v.type = "int"  -> v.value # 0
      [] v.type = "bool" -> v.value
      [] OTHER -> FALSE

\* str(value); a str nested in a container is shown by its repr
RECURSIVE PyStr(_), PyRepr(_), JoinItems(_, _), JoinElems(_, _)
PyStr(v) ==
    CASE v.type = "dict" -> "{" \o JoinItems(v.items, 1) \o "}"
      [] v.type = "list" -> "[" \o JoinElems(v.elems, 1) \o "]"
      [] v.type = "str"  -> v.value
      [] v.type = "int"  -> ToString(v.value)
      [] v.type = "bool" -> IF v.value THEN "True" ELSE "False"
      [] OTHER -> "None"

PyRepr(v) == IF v.type = "str" THEN "'" \o v.value \o "'" ELSE PyStr(v)

JoinItems(items, i) ==
    IF i > Len(items) THEN ""
    ELSE (IF i > 1 THEN ", " ELSE "")
            \o "'" \o items[i][1] \o "': " \o PyRepr(items[i][2]) \o JoinItems(items, i + 1)

JoinElems(elems, i) ==
    IF i > Len(elems) THEN ""
    ELSE (IF i > 1 THEN ", " ELSE "") \o PyRepr(elems[i]) \o JoinElems(elems, i + 1)

-----------------------------------------------------------------------------
(* MetadataCrawler._infer_schema and _infer_dataframe_schema *)

\* the length a sample is cut to
SampleLen == 100

RECURSIVE infer_schema(_, _), InferItems(_, _, _, _)

\* (mutant) a nested key is entered under its own name, without the path
InferItemsFlat(schema, items, parent_key, i) ==
    IF i > Len(items) THEN schema
    ELSE LET key == items[i][1]
             value == items[i][2]
             full_key == key
             entry == [type |-> value.type,
                       sample |-> IF Truthy(value)
                                  THEN Some(Truncate(PyStr(value), SampleLen)) ELSE None]
             own == SetItem(schema, full_key, entry)
             merged == IF value.type \in {"dict", "list"}
                       THEN Update(own, infer_schema(value, full_key)) ELSE own
         IN  InferItems(merged, items, parent_key, i + 1)

\* (mutant) a list is entered whether it has elements or not
infer_schema_any_list(data, parent_key) ==
    IF data.type = "dict" THEN InferItems(<<>>, data.items, parent_key, 1)
    ELSE IF data.type = "list"
    THEN LET own == SetItem(<<>>, parent_key,
                            [type |-> "list",
                             sample |-> IF Len(data.elems) > 0
                                        THEN Some(Truncate(PyStr(data.elems[1]), SampleLen))
                                        ELSE None])
         IN  IF Len(data.elems) > 0 /\ data.elems[1].type = "dict"
             THEN Update(own, infer_schema(data.elems[1], parent_key)) ELSE own
    ELSE <<>>

\* the loop over data.items()
InferItems(schema, items, parent_key, i) ==
    IF i > Len(items) THEN schema
    ELSE LET key == items[i][1]
             value == items[i][2]
             full_key == IF Len(parent_key) > 0 THEN parent_key \o "." \o key ELSE key
             entry == [type |-> value.type,
                       sample |-> IF Truthy(value)
                                  THEN Some(Truncate(PyStr(value), SampleLen)) ELSE None]
             own == SetItem(schema, full_key, entry)
             merged == IF value.type \in {"dict", "list"}
                       THEN Update(own, infer_schema(value, full_key)) ELSE own
         IN  InferItems(merged, items, parent_key, i + 1)

infer_schema(data, parent_key) ==
    IF data.type = "dict" THEN InferItems(EmptyDict, data.items, parent_key, 1)
    ELSE IF data.type = "list" /\ Len(data.elems) > 0
    THEN LET own == SetItem(EmptyDict, parent_key,
                            [type |-> "list",
                             sample |-> Some(Truncate(PyStr(data.elems[1]), SampleLen))])
         IN  IF data.elems[1].type = "dict"
             THEN Update(own, infer_schema(data.elems[1], parent_key)) ELSE own
    ELSE EmptyDict

\* A DataFrame is the sequence of its columns; a column has a name, a dtype
\* and its cells, a cell being [isnull, text] with text = str(cell).
Cell(text) == [isnull |-> FALSE, text |-> text]

NaN == [isnull |-> TRUE, text |-> "nan"]

\* len(df)
DfLen(df) == IF Len(df) = 0 THEN 0 ELSE Len(df[1].cells)

\* int(df[col].isnull().sum())
RECURSIVE NullCount(_, _)
NullCount(cells, i) ==
    IF i > Len(cells) THEN 0
    ELSE (IF cells[i].isnull THEN 1 ELSE 0) + NullCount(cells, i + 1)

\* the loop over df.columns
RECURSIVE infer_dataframe_loop(_, _, _)
infer_dataframe_loop(schema, df, i) ==
    IF i > Len(df) THEN schema
    ELSE infer_dataframe_loop(
            SetItem(schema, df[i].name,
                    [type |-> df[i].dtype,
                     null_count |-> NullCount(df[i].cells, 1),
                     sample |-> IF DfLen(df) > 0 THEN Some(df[i].cells[1].text) ELSE None]),
            df, i + 1)

infer_dataframe_schema(df) == infer_dataframe_loop(EmptyDict, df, 1)

-----------------------------------------------------------------------------
(* The HTTP endpoints and the files the crawler is pointed at *)

\* what requests.get does for a URL: it raises error, or it returns a
\* response with a status code and a body that parses to json or does not
Response(status_code, json) == [error |-> None, status_code |-> status_code, json |-> json]

ConnectionError(text) == [error |-> Some(text), status_code |-> 0, json |-> None]

CustomerBody ==
    JDict(<< <<"id", JInt(7)>>,
             <<"email", JStr("ann@example.com")>>,
             <<"address", JDict(<< <<"city", JStr("Oslo")>> >>)>>,
             <<"orders", JList(<<>>)>>,
             <<"active", JBool(FALSE)>>,
             <<"phone", JNull>> >>)

Apis ==
    << [url |-> "https://api.example.com/customers",
        responses |-> << Response(200, Some(CustomerBody)),
                         Response(503, None) >>],
       [url |-> "https://api.example.com/v1/",
        responses |-> << Response(200, Some(JList(<< JDict(<< <<"name", JStr("ann")>> >>) >>))),
                         Response(200, None) >>],
       [url |-> "https://api.example.com",
        responses |-> << Response(200, Some(JDict(<< <<"status", JStr("ok")>> >>))) >>],
       [url |-> "http://unreachable.invalid/data",
        responses |-> << ConnectionError("Max retries exceeded with url: /data") >>] >>

\* what the file system holds at a path: nothing (exists = FALSE), or a file
\* of some size whose content pandas reads as a DataFrame (frame), or
\* json.load reads as a value (json), or that the reader rejects (frame and
\* json are None)
File(path, size, frame, json) ==
    [path |-> path, exists |-> TRUE, size |-> size, frame |-> frame, json |-> json]

Missing(path) == [path |-> path, exists |-> FALSE, size |-> 0, frame |-> None, json |-> None]

Files ==
    << File("/data/customers.csv", 310,
            Some(<< [name |-> "customer_id", dtype |-> "int64",
                     cells |-> <<Cell("1"), Cell("2"), Cell("3"), Cell("4"), Cell("5"), Cell("6")>>],
                    [name |-> "email", dtype |-> "object",
                     cells |-> <<Cell("john.doe@email.com"), NaN, Cell("bob@email.com"),
                                 Cell("alice@email.com"), Cell("c@email.com"), NaN>>] >>),
            None),
       File("/backup/customers.csv", 12,
            Some(<< [name |-> "email", dtype |-> "float64", cells |-> <<NaN>>] >>),
            None),
       File("/data/config.json", 64, None,
            Some(JDict(<< <<"db", JDict(<< <<"host", JStr("localhost")>>,
                                           <<"port", JInt(5432)>> >>)>>,
                          <<"debug", JBool(TRUE)>> >>))),
       File("/data/broken.json", 9, None, None),
       File("/data/notes.txt", 120,
            Some(<< [name |-> "{\"note\": \"call ann\"}", dtype |-> "object", cells |-> <<>>] >>),
            Some(JDict(<< <<"note", JStr("call ann")>> >>))),
       File("/data/REPORT.XLS", 5120,
            Some(<< [name |-> "total", dtype |-> "float64", cells |-> <<Cell("12.5"), NaN>>] >>),
            None),
       File("/exports/customers", 2048, None, None),
       Missing("/data/missing.csv") >>

\* the rows pd.read_csv and pd.read_excel are asked for
SampleRows == 5

\* pd.read_csv(file_path, nrows=5)
ReadRows(frame, nrows) ==
    [i \in 1..Len(frame) |->
        [frame[i] EXCEPT !.cells = SubSeq(@, 1, Min(nrows, Len(@)))]]

-----------------------------------------------------------------------------
(* MetadataCrawler.crawl_api *)

\* response.raise_for_status(): the text of the HTTPError of a 4xx or 5xx
HttpErrorText(status_code, url) ==
    ToString(status_code)
        \o (IF status_code < 500 THEN " Client Error" ELSE " Server Error")
        \o " for url: " \o url

JsonErrorText == "Expecting value: line 1 column 1 (char 0)"

\* api_url.split('/')[-1] or 'root'
EndpointName(api_url) ==
    LET last == LastSegment(api_url, "/")
    IN  IF Len(last) > 0 THEN last ELSE "root"

\* except Exception as e: return False, f"API crawl error: {str(e)}"
ApiCrawlError(e) == <<FALSE, "API crawl error: " \o e>>

\* (mutant) the record is appended as soon as the response is there, before
\* raise_for_status and response.json()
CrawlApiBodyAppendFirst(self, api_url, response, now) ==
    IF response.error # None THEN Raised(self, response.error[1])
    ELSE LET early == AppendRecord(self, [source_type |-> "api",
                                          url |-> api_url,
                                          timestamp |-> now,
                                          status_code |-> response.status_code,
                                          schema |-> EmptyDict])
         IN  IF response.status_code >= 400 /\ response.status_code < 600
             THEN Raised(early, HttpErrorText(response.status_code, api_url))
             ELSE IF response.json = None THEN Raised(early, JsonErrorText)
             ELSE Returned([AppendRecord(self, [source_type |-> "api",
                                                url |-> api_url,
                                                timestamp |-> now,
                                                status_code |-> response.status_code,
                                                schema |-> infer_schema(response.json[1], "")])
                              EXCEPT !.lineage_graph =
                                 add_node(@, EndpointName(api_url),
                                          [node_type |-> "api", source |-> api_url])],
                           <<TRUE, "Successfully crawled API: " \o api_url>>)

\* the body of the try statement
CrawlApiBody(self, api_url, response, now) ==
    IF response.error # None THEN Raised(self, response.error[1])
    ELSE IF response.status_code >= 400 /\ response.status_code < 600
    THEN Raised(self, HttpErrorText(response.status_code, api_url))
    ELSE IF response.json = None THEN Raised(self, JsonErrorText)
    ELSE LET api_metadata == [source_type |-> "api",
                              url |-> api_url,
                              timestamp |-> now,
                              status_code |-> response.status_code,
                              schema |-> infer_schema(response.json[1], "")]
             appended == AppendRecord(self, api_metadata)
             endpoint_name == EndpointName(api_url)
         IN  Returned([appended EXCEPT !.lineage_graph =
                          add_node(@, endpoint_name, [node_type |-> "api", source |-> api_url])],
                      <<TRUE, "Successfully crawled API: " \o api_url>>)

crawl_api(self, api_url, response, now) ==
    LET body == CrawlApiBody(self, api_url, response, now)
    IN  TryExcept(body, ApiCrawlError(ExcText(body)))

-----------------------------------------------------------------------------
(* MetadataCrawler.crawl_file *)

NoSuchFileText(path) == "[Errno 2] No such file or directory: '" \o path \o "'"

ParserErrorText == "No columns to parse from file"

\* except Exception as e: return False, f"File crawl error: {str(e)}"
FileCrawlError(e) == <<FALSE, "File crawl error: " \o e>>

\* (mutant) the file is linked to the directory it lies in
RecordFileLinked(self, file_path, file_metadata) ==
    LET appended == AppendRecord(self, file_metadata)
        file_name == basename(file_path)
    IN  Returned([appended EXCEPT !.lineage_graph =
                     add_edge(add_node(@, file_name,
                                       [node_type |-> "file", source |-> file_path]),
                              file_name, file_path, [relationship |-> "stored_in"])],
                 <<TRUE, "Successfully crawled file: " \o file_name>>)

\* the tail of the try statement, from self.metadata_repo.append on
RecordFile(self, file_path, file_metadata) ==
    LET appended == AppendRecord(self, file_metadata)
        file_name == basename(file_path)
    IN  Returned([appended EXCEPT !.lineage_graph =
                     add_node(@, file_name, [node_type |-> "file", source |-> file_path])],
                 <<TRUE, "Successfully crawled file: " \o file_name>>)

\* (mutant) the reader is chosen by the content of the file where the
\* extension tells nothing
CrawlFileBodySniff(self, file_path, file, now) ==
    LET file_ext == Lower(splitext(file_path))
        file_metadata == [source_type |-> "file",
                          path |-> file_path,
                          extension |-> file_ext,
                          timestamp |-> now,
                          size |-> file.size]
    IN  IF ~file.exists THEN Raised(self, NoSuchFileText(file_path))
        ELSE IF file_ext \in {".csv", ".xlsx", ".xls"}
        THEN IF file.frame = None THEN Raised(self, ParserErrorText)
             ELSE RecordFile(self, file_path,
                      Update(file_metadata,
                             [schema |-> infer_dataframe_schema(ReadRows(file.frame[1], SampleRows))]))
        ELSE IF file_ext = ".json" \/ file.json # None
        THEN IF file.json = None THEN Raised(self, JsonErrorText)
             ELSE RecordFile(self, file_path,
                      Update(file_metadata, [schema |-> infer_schema(file.json[1], "")]))
        ELSE RecordFile(self, file_path, file_metadata)

\* the body of the try statement
CrawlFileBody(self, file_path, file, now) ==
    LET file_ext == Lower(splitext(file_path))
        file_metadata == [source_type |-> "file",
                          path |-> file_path,
                          extension |-> file_ext,
                          timestamp |-> now,
                          size |-> file.size]
    IN  IF ~file.exists THEN Raised(self, NoSuchFileText(file_path))
        ELSE IF file_ext \in {".csv", ".xlsx", ".xls"}
        THEN IF file.frame = None THEN Raised(self, ParserErrorText)
             ELSE RecordFile(self, file_path,
                      Update(file_metadata,
                             [schema |-> infer_dataframe_schema(ReadRows(file.frame[1], SampleRows))]))
        ELSE IF file_ext = ".json"
        THEN IF file.json = None THEN Raised(self, JsonErrorText)
             ELSE RecordFile(self, file_path,
                      Update(file_metadata, [schema |-> infer_schema(file.json[1], "")]))
        ELSE RecordFile(self, file_path, file_metadata)

crawl_file(self, file_path, file, now) ==
    LET body == CrawlFileBody(self, file_path, file, now)
    IN  TryExcept(body, FileCrawlError(ExcText(body)))

-----------------------------------------------------------------------------
(* MetadataCrawler.generate_data_dictionary *)

\* d.get(key, default)
Get(d, key, default) == IF key \in DOMAIN d THEN d[key] ELSE default

\* the loop over table['columns']
DictColumnLoop(full_dict, item, table) ==
    LET key == [i \in 1..Len(table.columns) |-> table.name \o "." \o table.columns[i].name]
        entry == [i \in 1..Len(table.columns) |->
                     [source |-> Get(item, "connection", "Unknown"),
                      source_type |-> "database",
                      table |-> table.name,
                      column |-> table.columns[i].name,
                      data_type |-> table.columns[i].type,
                      nullable |-> table.columns[i].nullable]]
    IN  AssignAll(full_dict, key, entry)

\* the loop over item.get('tables', [])
RECURSIVE DictTableLoop(_, _, _, _)
DictTableLoop(full_dict, item, tables, i) ==
    IF i > Len(tables) THEN full_dict
    ELSE DictTableLoop(DictColumnLoop(full_dict, item, tables[i]), item, tables, i + 1)

\* the loop over schema.items() of a file or API record: each field writes
\* the key <entity>.<field>; the fields of one schema are distinct, so the
\* keys of one record are, and the order of the loop does not matter
DictSchemaLoop(full_dict, entity, source, source_type, schema) ==
    LET KeyOf(field) == entity \o "." \o field
    IN  Update(full_dict,
               [key \in {KeyOf(field) : field \in DOMAIN schema} |->
                   LET field == CHOOSE f \in DOMAIN schema : KeyOf(f) = key
                   IN  [source |-> source,
                        source_type |-> source_type,
                        field |-> field,
                        data_type |-> Get(schema[field], "type", "Unknown")]])

\* one iteration of the loop over self.metadata_repo
DictItem(full_dict, item) ==
    CASE item.source_type = "database" ->
            DictTableLoop(full_dict, item, Get(item, "tables", <<>>), 1)
      [] item.source_type = "file" ->
            DictSchemaLoop(full_dict, basename(item.path), item.path, "file",
                           Get(item, "schema", EmptyDict))
      [] item.source_type = "api" ->
            DictSchemaLoop(full_dict, item.url, item.url, "api",
                           Get(item, "schema", EmptyDict))
      [] OTHER -> full_dict

\* (mutant) a key that is in the dictionary is not written again
RECURSIVE DictItemLoopFirstWins(_, _, _)
DictItemLoopFirstWins(full_dict, repo, i) ==
    IF i > Len(repo) THEN full_dict
    ELSE DictItemLoopFirstWins(Update(DictItem(EmptyDict, repo[i]), full_dict), repo, i + 1)

\* the loop over self.metadata_repo
RECURSIVE DictItemLoop(_, _, _)
DictItemLoop(full_dict, repo, i) ==
    IF i > Len(repo) THEN full_dict
    ELSE DictItemLoop(DictItem(full_dict, repo[i]), repo, i + 1)

\* (mutant) the dictionary is built on top of self.data_dictionary
generate_data_dictionary_cached(self) ==
    [self |-> self, ret |-> DictItemLoop(self.data_dictionary, self.metadata_repo, 1),
     raised |-> FALSE, caught |-> None]

generate_data_dictionary(self) ==
    [self |-> self, ret |-> DictItemLoop(EmptyDict, self.metadata_repo, 1),
     raised |-> FALSE, caught |-> None]

-----------------------------------------------------------------------------
(* MetadataCrawler.export_to_excel *)

\* A worksheet is its title, its header row and the rows appended below the
\* header; the rows are kept as a set (their order, that of the dict or graph
\* iterated, and the cell styles are left out).
Sheet(title, header, rows) == [title |-> title, header |-> header, rows |-> rows]

\* str(value.get('nullable', ''))
NullableText(value) ==
    IF "nullable" \in DOMAIN value
    THEN (IF value.nullable THEN "True" ELSE "False") ELSE ""

\* the rows of sheet "Data Dictionary"
DictionaryRows(data_dict) ==
    { << key,
         Get(data_dict[key], "source", ""),
         Get(data_dict[key], "source_type", ""),
         Get(data_dict[key], "table", Get(data_dict[key], "field", "")),
         Get(data_dict[key], "column", ""),
         Get(data_dict[key], "data_type", ""),
         NullableText(data_dict[key]) >> : key \in DOMAIN data_dict }

\* summary[source_type] = summary.get(source_type, 0) + 1 over the records
RECURSIVE SummaryLoop(_, _, _)
SummaryLoop(summary, repo, i) ==
    IF i > Len(repo) THEN summary
    ELSE SummaryLoop(SetItem(summary, repo[i].source_type,
                             Get(summary, repo[i].source_type, 0) + 1),
                     repo, i + 1)

\* the rows of sheet "Metadata Summary"
SummaryRows(summary) ==
    { << source_type, summary[source_type],
         ToString(summary[source_type]) \o " " \o source_type \o "(s) crawled" >>
      : source_type \in DOMAIN summary }

\* the rows of sheet "Lineage Map"
LineageRows(G) ==
    { << e[1], e[2], Get(G.edges[e], "relationship", "related") >> : e \in DOMAIN G.edges }

\* except Exception as e: return False, f"Export error: {str(e)}"
ExportError(e) == <<FALSE, "Export error: " \o e>>

\* the body of the try statement; io_error is the exception of wb.save, if any
ExportBody(self, file_path, io_error) ==
    LET data_dict == generate_data_dictionary(self).ret
        wb == << Sheet("Data Dictionary",
                       <<"Field", "Source", "Type", "Table/File", "Column", "Data Type", "Nullable">>,
                       DictionaryRows(data_dict)),
                 Sheet("Metadata Summary",
                       <<"Source Type", "Count", "Details">>,
                       SummaryRows(SummaryLoop(EmptyDict, self.metadata_repo, 1))),
                 Sheet("Lineage Map",
                       <<"From", "To", "Relationship">>,
                       LineageRows(self.lineage_graph)) >>
    IN  IF io_error # None
        THEN [Raised(self, io_error[1]) EXCEPT !.ret = None] @@ [saved |-> None]
        ELSE Returned(self, <<TRUE, "Successfully exported to " \o file_path>>)
                @@ [saved |-> Some(wb)]

\* returns also the workbook written to file_path (None when none is)
export_to_excel(self, file_path, io_error) ==
    LET body == ExportBody(self, file_path, io_error)
    IN  TryExcept(body, ExportError(ExcText(body))) @@ [saved |-> body.saved]

ExportPath == "/out/metadata.xlsx"

\* the failures of wb.save
SaveErrors == {None, Some("[Errno 13] Permission denied: '/out/metadata.xlsx'")}

-----------------------------------------------------------------------------
(* The state machine: one crawler, called any number of times *)

VARIABLES
    crawler,     \* the MetadataCrawler object
    before,      \* the object as it was when the latest call started
    clock,       \* the time, in crawls started so far
    last,        \* the latest call: its name, arguments and result
    successes,   \* the number of crawls that returned success so far
    dict_out,    \* the dictionaries generate_data_dictionary returned since the
                 \* latest crawl, the latest last (the latest two are kept)
    workbook,    \* the file at ExportPath (None when there is none)
    input,       \* the value handed to schema inference (None when there is none)
    schema,      \* the schema inferred from input (None before the call)
    objects,     \* the MetadataCrawler objects the interface has created, in order
    current,     \* the index in objects of self.crawler of the interface
    threads,     \* the background threads the interface has started, in order
    result_queue,\* self.result_queue: the messages put and not yet taken
    puts,        \* every message put on the queue so far, in order
    reported,    \* the messages _check_queue has taken and reported, in order
    polling,     \* whether _check_queue is running
    alive        \* whether _check_queue is running or scheduled to run

\* the variables of the calls of schema inference on its own
inferVars == <<input, schema>>

\* the variables of the interface and its background threads
guiVars == <<objects, current, threads, result_queue, puts, reported, polling, alive>>

\* the interface before it is used: one crawler object, no thread, the poller
\* scheduled
GuiIdle ==
    /\ objects = <<[crawler |-> MetadataCrawler, touched |-> {}]>>
    /\ current = 1
    /\ threads = <<>>
    /\ result_queue = <<>>
    /\ puts = <<>>
    /\ reported = <<>>
    /\ polling = FALSE
    /\ alive = TRUE

vars == <<crawler, before, clock, last, successes, dict_out, workbook, inferVars, guiVars>>

CrawlOps == {"crawl_database", "crawl_api", "crawl_file"}

\* the record of a call: db is the index of the database and fault the fault
\* of a crawl_database call (0 and NoFault for the other calls)
Call(op, target, db, fault, r) ==
    [op |-> op, target |-> target, db |-> db, fault |-> fault,
     ret |-> r.ret, raised |-> r.raised, caught |-> r.caught]

Init ==
    /\ crawler = MetadataCrawler
    /\ before = MetadataCrawler
    /\ clock = 0
    /\ last = [op |-> "init", target |-> "", db |-> 0, fault |-> NoFault,
               ret |-> <<TRUE, "">>, raised |-> FALSE, caught |-> None]
    /\ successes = 0
    /\ dict_out = <<>>
    /\ workbook = None
    /\ input = None
    /\ schema = None
    /\ GuiIdle

\* what every crawl does to the history variables
Crawled(r) ==
    /\ crawler' = r.self
    /\ before' = crawler
    /\ clock' = clock + 1
    /\ successes' = IF ~r.raised /\ r.ret[1] THEN successes + 1 ELSE successes
    /\ dict_out' = <<>>
    /\ UNCHANGED <<workbook, inferVars, guiVars>>

CrawlDatabase ==
    /\ clock < MaxCrawls
    /\ \E d \in 1..Len(Databases) : \E fault \in DbFaults(Databases[d]) :
          LET db == Databases[d]
              r == crawl_database(crawler, db.connection, db.db_type, db, fault, clock)
          IN  /\ Crawled(r)
              /\ last' = Call("crawl_database", db.connection, d, fault, r)

CrawlApi ==
    /\ clock < MaxCrawls
    /\ \E a \in 1..Len(Apis) : \E i \in 1..Len(Apis[a].responses) :
          LET r == crawl_api(crawler, Apis[a].url, Apis[a].responses[i], clock)
          IN  /\ Crawled(r)
              /\ last' = Call("crawl_api", Apis[a].url, 0, NoFault, r)

CrawlFile ==
    /\ clock < MaxCrawls
    /\ \E f \in 1..Len(Files) :
          LET r == crawl_file(crawler, Files[f].path, Files[f], clock)
          IN  /\ Crawled(r)
              /\ last' = Call("crawl_file", Files[f].path, 0, NoFault, r)

GenerateDataDictionary ==
    LET r == generate_data_dictionary(crawler)
    IN  /\ crawler' = r.self
        /\ before' = crawler
        /\ dict_out' = IF dict_out = <<>> THEN <<r.ret>> ELSE <<dict_out[Len(dict_out)], r.ret>>
        /\ last' = Call("generate_data_dictionary", "", 0, NoFault, [r EXCEPT !.ret = <<TRUE, "">>])
        /\ UNCHANGED <<clock, successes, workbook, inferVars, guiVars>>

ExportToExcel ==
    \E io_error \in SaveErrors :
       LET r == export_to_excel(crawler, ExportPath, io_error)
       IN  /\ crawler' = r.self
           /\ before' = crawler
           /\ workbook' = IF r.saved # None THEN r.saved ELSE workbook
           /\ last' = Call("export_to_excel", ExportPath, 0, NoFault, r)
           /\ UNCHANGED <<clock, successes, dict_out, inferVars, guiVars>>

Next ==
    \/ CrawlDatabase
    \/ CrawlApi
    \/ CrawlFile
    \/ GenerateDataDictionary
    \/ ExportToExcel

Spec == Init /\ [][Next]_vars

-----------------------------------------------------------------------------
(* What the claims speak of *)

NodeSet(c) == DOMAIN c.lineage_graph.nodes

EdgeSet(c) == DOMAIN c.lineage_graph.edges

IsCrawl == last.op \in CrawlOps

\* the latest call was a crawl that returned success / failure
CrawlSucceeded == IsCrawl /\ last.ret[1]

CrawlFailed == IsCrawl /\ ~last.ret[1]

\* the tables a crawl_database call processed before it ended
ProcessedTables ==
    IF last.op # "crawl_database" THEN {}
    ELSE LET names == Databases[last.db].table_names
             n == IF last.fault.at < 0 THEN Len(names) ELSE last.fault.at - 1
         IN  {names[i] : i \in 1..n}

\* the tables the foreign keys of table t of database d refer to
ReferredTables(d, t) ==
    {Databases[d].tables[t].foreign_keys[i].referred_table :
        i \in 1..Len(Databases[d].tables[t].foreign_keys)}

\* the foreign keys of the tables processed, as pairs <<table, referred table>>
ForeignKeyPairs(d, tables) ==
    UNION {{<<t, b>> : b \in ReferredTables(d, t)} : t \in tables}

ProcessedForeignKeys == ForeignKeyPairs(last.db, ProcessedTables)

\* the keys <table>.<column> of the columns of table t of database d
ColumnKeys(d, t) ==
    {t \o "." \o Databases[d].tables[t].columns[i].name :
        i \in 1..Len(Databases[d].tables[t].columns)}

\* what generate_data_dictionary returns in the current state
Dictionary == generate_data_dictionary(crawler).ret

-----------------------------------------------------------------------------
(* C1 *)

\* C1 as stated: a crawl operation that fails leaves the metadata sequence
\* and the lineage graph (node set and edge set) at the size they had before
\* the call.
C1_FailedCrawlKeepsSizes ==
    CrawlFailed =>
        /\ Len(crawler.metadata_repo) = Len(before.metadata_repo)
        /\ Cardinality(NodeSet(crawler)) = Cardinality(NodeSet(before))
        /\ Cardinality(EdgeSet(crawler)) = Cardinality(EdgeSet(before))

\* C1 as amended: a crawl operation that fails leaves the metadata sequence
\* as it was; a failed crawl_api or crawl_file leaves the lineage graph as it
\* was too, while a failed crawl_database leaves in the graph the nodes and
\* foreign-key edges of the tables it processed before the failure (the
\* graph may have grown by exactly these, and never shrinks).
C1_FailedCrawlKeepsRecords ==
    CrawlFailed =>
        /\ crawler.metadata_repo = before.metadata_repo
        /\ last.op \in {"crawl_api", "crawl_file"} =>
              crawler.lineage_graph = before.lineage_graph
        /\ last.op = "crawl_database" =>
              /\ EdgeSet(crawler) = EdgeSet(before) \cup ProcessedForeignKeys
              /\ NodeSet(crawler) =
                    NodeSet(before) \cup ProcessedTables
                        \cup UNION {ReferredTables(last.db, t) : t \in ProcessedTables}

\* a database crawl has failed after two tables, with records and nodes there
C1_Witness ==
    /\ CrawlFailed
    /\ last.op = "crawl_database"
    /\ last.fault.at = 3
    /\ Len(before.metadata_repo) = 1
    /\ NodeSet(before) # {}

-----------------------------------------------------------------------------
(* C2 *)

\* C2: every call of crawl_database, crawl_api, crawl_file and
\* export_to_excel ends by returning a (success, message) pair: no exception
\* leaves the method, and when an error occurred in it the pair is
\* (false, non-empty message).
C2_ErrorsBecomeResults ==
    last.op \in CrawlOps \cup {"export_to_excel"} =>
        /\ ~last.raised
        /\ Len(last.ret) = 2
        /\ last.ret[1] \in BOOLEAN
        /\ last.ret[2] \in STRING
        /\ last.caught # None => ~last.ret[1]
        /\ ~last.ret[1] => Len(last.ret[2]) > 0

\* a crawl has failed with an exception whose text is empty
C2_Witness ==
    /\ last.op = "crawl_database"
    /\ last.caught = Some("")
    /\ ~last.ret[1]

-----------------------------------------------------------------------------
(* C3 *)

\* C3 as stated: when a database crawl fails after some tables have been
\* processed, those tables remain recorded: their lineage nodes and
\* foreign-key edges are in the graph and their columns are among the keys
\* generate_data_dictionary returns afterwards.
C3_ProcessedTablesRemainRecorded ==
    (CrawlFailed /\ last.op = "crawl_database") =>
        \A t \in ProcessedTables :
            /\ t \in NodeSet(crawler)
            /\ ForeignKeyPairs(last.db, {t}) \subseteq EdgeSet(crawler)
            /\ ColumnKeys(last.db, t) \subseteq DOMAIN Dictionary

-----------------------------------------------------------------------------
(* C4 *)

\* C4: generate_data_dictionary is idempotent and pure: a call changes
\* neither the metadata sequence nor the lineage graph, its result is the one
\* a crawler holding nothing but the same metadata sequence returns, and two
\* consecutive calls with no crawl in between return the same dictionary.
C4_DictionaryIdempotentPure ==
    /\ last.op = "generate_data_dictionary" =>
          /\ crawler.metadata_repo = before.metadata_repo
          /\ crawler.lineage_graph = before.lineage_graph
          /\ dict_out[Len(dict_out)] =
                generate_data_dictionary(
                    [MetadataCrawler EXCEPT !.metadata_repo = crawler.metadata_repo]).ret
    /\ Len(dict_out) = 2 => dict_out[1] = dict_out[2]

\* the dictionary was generated twice in a row, after a database crawl that
\* failed half way and with a record in the sequence
C4_Witness ==
    /\ last.op = "generate_data_dictionary"
    /\ Len(dict_out) = 2
    /\ Len(crawler.metadata_repo) > 0
    /\ DOMAIN dict_out[2] # {}
    /\ ~(DOMAIN crawler.data_dictionary \subseteq DOMAIN dict_out[2])

-----------------------------------------------------------------------------
(* C5 *)

\* the latest call was a successful crawl of a database in which table a has
\* a foreign key that refers to table b
CrawledForeignKey(a, b) ==
    /\ CrawlSucceeded
    /\ last.op = "crawl_database"
    /\ a \in ProcessedTables
    /\ b \in ReferredTables(last.db, a)

\* the edges the latest call added to the graph
AddedEdges == EdgeSet(crawler) \ EdgeSet(before)

\* the number of edges from a to b
EdgeCount(c, a, b) == Cardinality({e \in EdgeSet(c) : e[1] = a /\ e[2] = b})

\* C5 as stated: after a successful crawl of a database in which table A has
\* a foreign key to table B the graph holds exactly one edge from A to B,
\* tagged foreign_key, and the crawl has added no edge from B to A.
C5_OneEdgeNoneBack ==
    \A a \in ProcessedTables : \A b \in ReferredTables(last.db, a) :
        CrawledForeignKey(a, b) =>
            /\ EdgeCount(crawler, a, b) = 1
            /\ crawler.lineage_graph.edges[<<a, b>>] = [relationship |-> "foreign_key"]
            /\ <<b, a>> \notin AddedEdges

\* C5 as amended: ... exactly one edge from A to B, tagged foreign_key, and
\* the crawl has added an edge from B to A only if B has itself a foreign key
\* that refers to A (two tables that refer to each other, or A = B, a table
\* that refers to itself); also when A has several foreign keys to B and when
\* the database is crawled again.
C5_OneEdgePerForeignKey ==
    /\ \A a \in ProcessedTables : \A b \in ReferredTables(last.db, a) :
          CrawledForeignKey(a, b) =>
              /\ <<a, b>> \in EdgeSet(crawler)
              /\ EdgeCount(crawler, a, b) = 1
              /\ crawler.lineage_graph.edges[<<a, b>>] = [relationship |-> "foreign_key"]
              /\ <<b, a>> \in AddedEdges => CrawledForeignKey(b, a)
    /\ (CrawlSucceeded /\ last.op = "crawl_database") =>
          AddedEdges \subseteq ProcessedForeignKeys

\* the database with two foreign keys from tickets to customers has been
\* crawled a second time
C5_Witness ==
    /\ CrawledForeignKey("tickets", "customers")
    /\ Len(Databases[last.db].tables["tickets"].foreign_keys) > 2
    /\ Len(before.metadata_repo) = 1
    /\ before.metadata_repo[1].source_type = "database"
    /\ before.metadata_repo[1].connection = last.target

-----------------------------------------------------------------------------
(* C6 *)

NodeType(c, n) == Get(c.lineage_graph.nodes[n], "node_type", "unknown")

\* C6 as stated: every lineage node whose node_type is api or file has no
\* incoming and no outgoing edge.
C6_ApiFileNodesIsolated ==
    \A n \in NodeSet(crawler) :
        NodeType(crawler, n) \in {"api", "file"} =>
            \A e \in EdgeSet(crawler) : e[1] # n /\ e[2] # n

\* the foreign keys of all databases, as pairs <<table, referred table>>
AllForeignKeys ==
    UNION {ForeignKeyPairs(d, DOMAIN Databases[d].tables) : d \in 1..Len(Databases)}

\* C6 as amended: non-database sources never produce edges: a crawl_api or
\* crawl_file call leaves the edge set as it was, and every edge of the graph
\* is a foreign key of a crawled database, tagged foreign_key.  (A node
\* tagged api or file has an edge exactly when its name is also an end point
\* of such a foreign key, its attributes being those of the latest writer.)
C6_OnlyDatabasesAddEdges ==
    /\ last.op \in {"crawl_api", "crawl_file"} =>
          crawler.lineage_graph.edges = before.lineage_graph.edges
    /\ \A e \in EdgeSet(crawler) :
          /\ e \in AllForeignKeys
          /\ crawler.lineage_graph.edges[e] = [relationship |-> "foreign_key"]

\* an API or file crawl has written the node of a table that has edges
C6_Witness ==
    /\ CrawlSucceeded
    /\ last.op \in {"crawl_api", "crawl_file"}
    /\ \E e \in EdgeSet(crawler) :
          \E n \in {e[1], e[2]} : NodeType(crawler, n) \in {"api", "file"}

-----------------------------------------------------------------------------
(* C7 *)

\* the dictionary entries one metadata record gives rise to
EntriesOf(item) == DictItem(EmptyDict, item)

\* the entries of every record of the metadata sequence, record by record
EntriesPerRecord(repo) == [i \in 1..Len(repo) |-> EntriesOf(repo[i])] @@ <<>>

\* the records that produce key, entries being the entries per record
Producers(entries, key) == {i \in DOMAIN entries : key \in DOMAIN entries[i]}

Latest(S) == CHOOSE i \in S : \A j \in S : j <= i

\* C7: when several metadata records produce one composite key, the
\* dictionary generate_data_dictionary returns holds one entry for the key,
\* and it is the entry of the record that is latest in the sequence; it
\* holds no key that no record produces.
C7_LaterRecordWins ==
    dict_out # <<>> =>
        LET entries == EntriesPerRecord(crawler.metadata_repo)
            d == dict_out[Len(dict_out)]
        IN  /\ DOMAIN d = UNION {DOMAIN entries[i] : i \in DOMAIN entries}
            /\ \A key \in DOMAIN d :
                  d[key] = entries[Latest(Producers(entries, key))][key]

\* the dictionary was generated from two records that produce one key with
\* different sources and data types
C7_Witness ==
    /\ dict_out # <<>>
    /\ Len(crawler.metadata_repo) = 2
    /\ \E key \in DOMAIN EntriesOf(crawler.metadata_repo[1]) :
          /\ key \in DOMAIN EntriesOf(crawler.metadata_repo[2])
          /\ EntriesOf(crawler.metadata_repo[1])[key].source
                # EntriesOf(crawler.metadata_repo[2])[key].source
          /\ EntriesOf(crawler.metadata_repo[1])[key].data_type
                # EntriesOf(crawler.metadata_repo[2])[key].data_type

-----------------------------------------------------------------------------
(* C8 *)

\* the nodes the latest crawl has written with add_node, and the attributes
\* it gave them
WrittenNodes ==
    CASE last.op = "crawl_database" -> ProcessedTables
      [] last.op = "crawl_api" /\ last.ret[1] -> {EndpointName(last.target)}
      [] last.op = "crawl_file" /\ last.ret[1] -> {basename(last.target)}
      [] OTHER -> {}

WrittenAttributes ==
    CASE last.op = "crawl_database" -> [node_type |-> "table", source |-> "database"]
      [] last.op = "crawl_api" -> [node_type |-> "api", source |-> last.target]
      [] last.op = "crawl_file" -> [node_type |-> "file", source |-> last.target]
      [] OTHER -> <<>>

\* C8: when a crawl adds a lineage node whose name is that of a node in the
\* graph already, the graph keeps one node of that name (the node count
\* grows by the new names only) and the node carries the node_type and source
\* the later crawl wrote.
C8_LaterNodeWins ==
    IsCrawl =>
        /\ \A n \in WrittenNodes :
              /\ n \in NodeSet(crawler)
              /\ crawler.lineage_graph.nodes[n] = WrittenAttributes
        /\ Cardinality(NodeSet(crawler)) =
              Cardinality(NodeSet(before))
                + Cardinality((WrittenNodes
                                 \cup UNION {ReferredTables(last.db, t) : t \in ProcessedTables})
                              \ NodeSet(before))

\* an API crawl has written a node that a database crawl had tagged table
C8_Witness ==
    /\ CrawlSucceeded
    /\ last.op = "crawl_api"
    /\ EndpointName(last.target) \in NodeSet(before)
    /\ NodeType(before, EndpointName(last.target)) = "table"

-----------------------------------------------------------------------------
(* C9 *)

SourceTypeOf(op) ==
    CASE op = "crawl_database" -> "database"
      [] op = "crawl_api" -> "api"
      [] op = "crawl_file" -> "file"
      [] OTHER -> "none"

\* C9: the length of the metadata sequence is the number of crawl operations
\* that returned success; a successful crawl has appended one record, of the
\* source type of the crawl, and a failed one none.
C9_OneRecordPerSuccess ==
    /\ Len(crawler.metadata_repo) = successes
    /\ CrawlSucceeded =>
          /\ Len(crawler.metadata_repo) = Len(before.metadata_repo) + 1
          /\ crawler.metadata_repo[Len(crawler.metadata_repo)].source_type
                = SourceTypeOf(last.op)
    /\ CrawlFailed => Len(crawler.metadata_repo) = Len(before.metadata_repo)

\* two crawls of different kinds have succeeded
C9_Witness ==
    /\ CrawlSucceeded
    /\ successes = 2
    /\ crawler.metadata_repo[1].source_type # crawler.metadata_repo[2].source_type

-----------------------------------------------------------------------------
(* C10 *)

IsPrefix(s, t) == Len(s) <= Len(t) /\ SubSeq(t, 1, Len(s)) = s

\* C10: the metadata sequence is append-only and in crawl order: no call
\* (crawl, generate_data_dictionary, export_to_excel) modifies, removes or
\* moves a record that is in the sequence, and the record of a crawl that
\* ended before another started precedes the record of the other.
C10_AppendOnlyInCrawlOrder ==
    /\ IsPrefix(before.metadata_repo, crawler.metadata_repo)
    /\ \A i \in 1..Len(crawler.metadata_repo) : \A j \in 1..Len(crawler.metadata_repo) :
          i < j => crawler.metadata_repo[i].timestamp < crawler.metadata_repo[j].timestamp

\* a crawl has appended a record behind the record of an earlier crawl
C10_Witness ==
    /\ CrawlSucceeded
    /\ Len(before.metadata_repo) = 1
    /\ Len(crawler.metadata_repo) = 2

-----------------------------------------------------------------------------
(* C11 *)

\* the 1-based position of the first occurrence of sub in s from position i
\* on, or 0
RECURSIVE Find(_, _, _)
Find(s, sub, i) ==
    IF i + Len(sub) - 1 > Len(s) THEN 0
    ELSE IF SubSeq(s, i, i + Len(sub) - 1) = sub THEN i
    ELSE Find(s, sub, i + 1)

\* the path of a URL scheme://host/path: the text from the first "/" behind
\* the host on, empty for a bare scheme://host
UrlPath(url) ==
    LET scheme == Find(url, "://", 1)
        host == IF scheme = 0 THEN 1 ELSE scheme + 3
        slash == Find(url, "/", host)
    IN  IF slash = 0 THEN "" ELSE From(url, slash - 1)

\* the name the claim gives the node of a URL: its last path segment, or the
\* placeholder when the URL has no path or ends in "/"
PathSegmentOrRoot(url) ==
    LET segment == LastSegment(UrlPath(url), "/")
    IN  IF Len(segment) > 0 THEN segment ELSE "root"

\* C11 as stated: a successful API crawl adds exactly one lineage node,
\* tagged api, named by the last path segment of the URL, and named root when
\* the URL has no path segment (a bare scheme://host URL, or a URL that ends
\* in "/").
C11_NodeNamedBySegmentOrRoot ==
    (CrawlSucceeded /\ last.op = "crawl_api") =>
        LET name == PathSegmentOrRoot(last.target)
        IN  /\ name \in NodeSet(crawler)
            /\ NodeType(crawler, name) = "api"
            /\ crawler.lineage_graph.nodes[name].source = last.target
            /\ NodeSet(crawler) \ NodeSet(before) \subseteq {name}
            /\ \A n \in NodeSet(before) \ {name} :
                  crawler.lineage_graph.nodes[n] = before.lineage_graph.nodes[n]

-----------------------------------------------------------------------------
(* C12 *)

\* the file the file system holds at path
FileAt(path) == Files[CHOOSE f \in 1..Len(Files) : Files[f].path = path]

TabularExtensions == {".csv", ".xlsx", ".xls"}

\* C12: crawl_file dispatches on the extension of the path alone (in any
\* letter case): a successful crawl of a .csv, .xlsx or .xls file appends a
\* record whose schema is the tabular inference of the first rows of the
\* file, of a .json file one whose schema is the tree inference of the parsed
\* content, and of any other file, whatever it contains, one with path, size
\* and timestamp and no schema field, which gives the data dictionary no
\* entry, while the node of the file is still in the lineage graph.
C12_DispatchOnExtension ==
    (CrawlSucceeded /\ last.op = "crawl_file") =>
        LET ext == Lower(splitext(last.target))
            file == FileAt(last.target)
            record == crawler.metadata_repo[Len(crawler.metadata_repo)]
            name == basename(last.target)
        IN  /\ record.source_type = "file"
            /\ record.path = last.target
            /\ record.size = file.size
            /\ "timestamp" \in DOMAIN record
            /\ ext \in TabularExtensions =>
                  /\ "schema" \in DOMAIN record
                  /\ record.schema = infer_dataframe_schema(ReadRows(file.frame[1], SampleRows))
                  /\ DOMAIN record.schema = {file.frame[1][i].name : i \in 1..Len(file.frame[1])}
                  /\ \A col \in DOMAIN record.schema : "null_count" \in DOMAIN record.schema[col]
            /\ ext = ".json" =>
                  /\ "schema" \in DOMAIN record
                  /\ record.schema = infer_schema(file.json[1], "")
                  /\ \A field \in DOMAIN record.schema :
                        "null_count" \notin DOMAIN record.schema[field]
            /\ ext \notin TabularExtensions \cup {".json"} =>
                  /\ "schema" \notin DOMAIN record
                  /\ DOMAIN EntriesOf(record) = {}
            /\ name \in NodeSet(crawler)
            /\ crawler.lineage_graph.nodes[name] = [node_type |-> "file", source |-> last.target]

\* a file of another extension that holds parseable content has been
\* crawled, after a spreadsheet whose extension is written in capitals
C12_Witness ==
    /\ CrawlSucceeded
    /\ last.op = "crawl_file"
    /\ Lower(splitext(last.target)) \notin TabularExtensions \cup {".json"}
    /\ FileAt(last.target).json # None
    /\ Len(before.metadata_repo) = 1
    /\ before.metadata_repo[1].source_type = "file"
    /\ before.metadata_repo[1].extension = ".xls"
    /\ splitext(before.metadata_repo[1].path) # ".xls"

-----------------------------------------------------------------------------
(* Schema inference on its own: _infer_schema and _infer_dataframe_schema *)
(* applied once to a value drawn from a bounded set                        *)

\* the most items a mapping of the bounded set has, and the most columns of a
\* DataFrame
MaxItems == 2

Ten == "0123456789"

\* a text of 101 characters, one more than a sample holds
LongText == Ten \o Ten \o Ten \o Ten \o Ten \o Ten \o Ten \o Ten \o Ten \o Ten \o "!"

\* the keys of the mappings: plain keys, a key with a dot, the empty key
JsonKeys == {"a", "b", "a.b", ""}

\* the values of the mappings: leaves (two of them falsy), empty and
\* non-empty containers
JsonValues ==
    { JStr("x"),
      JStr(LongText),
      JInt(0),
      JNull,
      JDict(<<>>),
      JList(<<>>),
      JDict(<< <<"b", JInt(1)>> >>),
      JList(<< JDict(<< <<"b", JStr("y")>>, <<"c", JList(<<>>)>> >>),
               JDict(<< <<"z", JInt(2)>> >>) >>),
      JList(<< JStr("x"), JStr("y") >>) }

\* the sequences of n items with distinct keys
ItemSeqs(n) ==
    {items \in [1..n -> JsonKeys \X JsonValues] :
        \A i \in 1..n : \A j \in 1..n : i # j => items[i][1] # items[j][1]}

Mappings == {JDict(items) : items \in UNION {ItemSeqs(n) : n \in 0..MaxItems}}

JsonLists == {JList(<<>>), JList(<< JDict(<< <<"a", JStr("x")>> >>) >>), JList(<< JInt(3) >>)}

\* the columns of a DataFrame: without rows, with a short or a long first
\* cell, with a missing first cell
ColumnCells == { <<>>, <<Cell("x"), NaN>>, <<Cell(LongText)>>, <<NaN, Cell("7")>> }

ColumnSeqs(n) ==
    {cols \in [1..n -> [name : {"email", "id"}, dtype : {"object"}, cells : ColumnCells]] :
        /\ \A i \in 1..n : \A j \in 1..n : i # j => cols[i].name # cols[j].name
        /\ \A i \in 1..n : Len(cols[i].cells) = Len(cols[1].cells)}

DataFrames == UNION {ColumnSeqs(n) : n \in 0..MaxItems}

InferInputs ==
    {[kind |-> "json", data |-> d] : d \in Mappings \cup JsonLists}
        \cup {[kind |-> "frame", data |-> [type |-> "DataFrame", columns |-> df]]
                 : df \in DataFrames}

InitInfer ==
    /\ crawler = MetadataCrawler
    /\ before = MetadataCrawler
    /\ clock = 0
    /\ last = [op |-> "init", target |-> "", db |-> 0, fault |-> NoFault,
               ret |-> <<TRUE, "">>, raised |-> FALSE, caught |-> None]
    /\ successes = 0
    /\ dict_out = <<>>
    /\ workbook = None
    /\ input \in InferInputs
    /\ schema = None
    /\ GuiIdle

\* self._infer_schema(data)
InferSchema ==
    /\ schema = None
    /\ input.kind = "json"
    /\ schema' = Some(infer_schema(input.data, ""))
    /\ UNCHANGED <<crawler, before, clock, last, successes, dict_out, workbook, input, guiVars>>

\* self._infer_dataframe_schema(df)
InferDataframeSchema ==
    /\ schema = None
    /\ input.kind = "frame"
    /\ schema' = Some(infer_dataframe_schema(input.data.columns))
    /\ UNCHANGED <<crawler, before, clock, last, successes, dict_out, workbook, input, guiVars>>

NextInfer ==
    \/ InferSchema
    \/ InferDataframeSchema

SpecInfer == InitInfer /\ [][NextInfer]_vars

\* tree inference, tabular inference has been applied to the input
InferredJson == schema # None /\ input.kind = "json"

InferredFrame == schema # None /\ input.kind = "frame"

\* the keys of the mappings the recursion reaches in data, each as the
\* sequence of keys that leads to it from the root: the keys of a mapping and
\* below them those of their values; of a sequence, those of its first
\* element when that is a mapping
RECURSIVE KeyPaths(_)
KeyPaths(data) ==
    CASE data.type = "dict" ->
            UNION {{<<data.items[i][1]>>}
                      \cup {<<data.items[i][1]>> \o p : p \in KeyPaths(data.items[i][2])}
                   : i \in 1..Len(data.items)}
      [] data.type = "list" ->
            IF Len(data.elems) > 0 /\ data.elems[1].type = "dict"
            THEN KeyPaths(data.elems[1]) ELSE {}
      [] OTHER -> {}

\* the value a key path leads to
RECURSIVE ValueAt(_, _)
ValueAt(data, p) ==
    IF data.type = "list" THEN ValueAt(data.elems[1], p)
    ELSE LET i == CHOOSE j \in 1..Len(data.items) : data.items[j][1] = p[1]
         IN  IF Len(p) = 1 THEN data.items[i][2]
             ELSE ValueAt(data.items[i][2], Tail(p))

\* the dotted path of a key path: f"{parent_key}.{key}" if parent_key else key
RECURSIVE DottedFrom(_, _)
DottedFrom(parent_key, p) ==
    IF Len(p) = 0 THEN parent_key
    ELSE DottedFrom(IF Len(parent_key) > 0 THEN parent_key \o "." \o Head(p) ELSE Head(p),
                    Tail(p))

Dotted(p) == DottedFrom("", p)

\* no key on the path is empty or holds a dot
PlainKeys(p) == \A i \in 1..Len(p) : Len(p[i]) > 0 /\ Find(p[i], ".", 1) = 0

-----------------------------------------------------------------------------
(* C14 *)

\* C14 as stated: for a mapping input, every key of every mapping the
\* recursion reaches appears once in the inferred schema, under its dotted
\* path: none is lost and no two distinct keys share a schema entry.
C14_EveryKeyOwnEntry ==
    (InferredJson /\ input.data.type = "dict") =>
        LET paths == KeyPaths(input.data)
        IN  /\ \A p \in paths : Dotted(p) \in DOMAIN schema[1]
            /\ \A p \in paths : \A q \in paths : p # q => Dotted(p) # Dotted(q)
            /\ Cardinality(DOMAIN schema[1]) = Cardinality(paths)

\* C14 as amended: for a mapping input, the keys of the inferred schema are
\* exactly the dotted paths of the keys the recursion reaches; when no key of
\* the input is empty or holds a dot, distinct keys have distinct dotted
\* paths, so every key has an entry of its own, with the type of its value.
\* (Two keys whose dotted paths are equal, as "a.b" beside key b of mapping
\* a, share one entry, that of the key written later.)
C14_EveryPathOneEntry ==
    (InferredJson /\ input.data.type = "dict") =>
        LET paths == KeyPaths(input.data)
        IN  /\ DOMAIN schema[1] = {Dotted(p) : p \in paths}
            /\ (\A p \in paths : PlainKeys(p)) =>
                  /\ \A p \in paths : \A q \in paths : p # q => Dotted(p) # Dotted(q)
                  /\ Cardinality(DOMAIN schema[1]) = Cardinality(paths)
                  /\ \A p \in paths :
                        schema[1][Dotted(p)].type = ValueAt(input.data, p).type

\* a mapping with plain keys has been inferred, one value a mapping and one
\* a sequence of mappings: five keys on three levels of nesting
C14_Witness ==
    /\ InferredJson
    /\ input.data.type = "dict"
    /\ \A p \in KeyPaths(input.data) : PlainKeys(p)
    /\ \E p \in KeyPaths(input.data) :
          Len(p) = 2 /\ ValueAt(input.data, <<p[1]>>).type = "list"
    /\ \E p \in KeyPaths(input.data) :
          Len(p) = 2 /\ ValueAt(input.data, <<p[1]>>).type = "dict"
    /\ Cardinality(DOMAIN schema[1]) = 5

-----------------------------------------------------------------------------
(* C15 *)

EmptyContainers == {JDict(<<>>), JList(<<>>)}

\* C15: schema inference of an empty mapping or an empty sequence yields an
\* empty schema; an empty mapping or sequence that is the value of a key of
\* the input adds nothing below that key: inference of the branch yields an
\* empty schema, the key has its own entry (without sample) and, when the
\* keys are plain, no schema key extends the dotted path of the key.
C15_EmptyGivesNoEntries ==
    InferredJson =>
        /\ input.data \in EmptyContainers => schema[1] = EmptyDict
        /\ \A p \in KeyPaths(input.data) :
              ValueAt(input.data, p) \in EmptyContainers =>
                  /\ infer_schema(ValueAt(input.data, p), Dotted(p)) = EmptyDict
                  /\ (\A q \in KeyPaths(input.data) : PlainKeys(q)) =>
                        /\ schema[1][Dotted(p)] =
                              [type |-> ValueAt(input.data, p).type, sample |-> None]
                        /\ \A key \in DOMAIN schema[1] :
                              ~IsPrefix(Dotted(p) \o ".", key)

\* a mapping has been inferred that holds an empty mapping beside a sequence
\* whose first element holds an empty sequence
C15_Witness ==
    /\ InferredJson
    /\ \A q \in KeyPaths(input.data) : PlainKeys(q)
    /\ \E p \in KeyPaths(input.data) :
          Len(p) = 1 /\ ValueAt(input.data, p) = JDict(<<>>)
    /\ \E p \in KeyPaths(input.data) :
          Len(p) = 2 /\ ValueAt(input.data, p) = JList(<<>>)
    /\ schema[1] # EmptyDict

-----------------------------------------------------------------------------
(* C16 *)

\* C16 as stated: every field schema inference produces, tree inference and
\* tabular inference alike, carries a sample that is a text of at most 100
\* characters, the start of the text of the value.
C16_SamplesAreTruncatedText ==
    /\ InferredJson =>
          \A key \in DOMAIN schema[1] :
              /\ schema[1][key].sample # None
              /\ Len(schema[1][key].sample[1]) <= SampleLen
    /\ InferredFrame =>
          \A i \in 1..Len(input.data.columns) :
              LET col == input.data.columns[i]
              IN  Len(col.cells) > 0 =>
                     /\ schema[1][col.name].sample # None
                     /\ Len(schema[1][col.name].sample[1]) <= SampleLen
                     /\ IsPrefix(schema[1][col.name].sample[1], col.cells[1].text)

-----------------------------------------------------------------------------
(* The export from the interface: MetadataCrawlerGUI.export_excel, on the *)
(* main thread, beside the crawls and the export of the engine            *)

NoDataText == "Please crawl some sources first"

\* (mutant) the export is started whatever the metadata sequence holds
export_excel_unchecked(self, filename, io_error) ==
    IF Len(filename) = 0
    THEN [self |-> self, ret |-> <<FALSE, "">>, raised |-> FALSE, caught |-> None,
          saved |-> None]
    ELSE export_to_excel(self, filename, io_error)

\* MetadataCrawlerGUI.export_excel, self being self.crawler and filename what
\* the file dialog returns ("" when it is cancelled); ret is the outcome
\* shown: (False, text of the "No Data" box), (False, "") when nothing is
\* shown, or the result of export_to_excel
export_excel(self, filename, io_error) ==
    IF Len(self.metadata_repo) = 0
    THEN [self |-> self, ret |-> <<FALSE, NoDataText>>, raised |-> FALSE, caught |-> None,
          saved |-> None]
    ELSE IF Len(filename) = 0
    THEN [self |-> self, ret |-> <<FALSE, "">>, raised |-> FALSE, caught |-> None,
          saved |-> None]
    ELSE export_to_excel(self, filename, io_error)

ExportExcel ==
    \E filename \in {"", ExportPath} : \E io_error \in SaveErrors :
       LET r == export_excel(crawler, filename, io_error)
       IN  /\ crawler' = r.self
           /\ before' = crawler
           /\ workbook' = IF r.saved # None THEN r.saved ELSE workbook
           /\ last' = Call("export_excel", filename, 0, NoFault, r)
           /\ UNCHANGED <<clock, successes, dict_out, inferVars, guiVars>>

NextExport ==
    \/ CrawlDatabase
    \/ CrawlApi
    \/ CrawlFile
    \/ ExportToExcel
    \/ ExportExcel

SpecExport == Init /\ [][NextExport]_vars

-----------------------------------------------------------------------------
(* C17 *)

\* the workbook of an empty dictionary, summary and edge list: three sheets,
\* each with its header row and no row below it
HeadersOnly ==
    << Sheet("Data Dictionary",
             <<"Field", "Source", "Type", "Table/File", "Column", "Data Type", "Nullable">>, {}),
       Sheet("Metadata Summary", <<"Source Type", "Count", "Details">>, {}),
       Sheet("Lineage Map", <<"From", "To", "Relationship">>, {}) >>

\* export_to_excel on a crawler without records and lineage edges, its save
\* not failing, returns success and has written the three sheets, each with
\* its header row alone; when the save fails it returns failure
EmptyExportIsHeadersOnly ==
    (/\ last.op = "export_to_excel"
     /\ Len(crawler.metadata_repo) = 0
     /\ EdgeSet(crawler) = {}) =>
        IF last.caught = None
        THEN last.ret[1] /\ workbook = Some(HeadersOnly)
        ELSE ~last.ret[1]

\* a step of export_excel taken while the metadata sequence is empty writes
\* nothing and shows the "No Data" box
EmptyGuiExportRefused ==
    (last'.op = "export_excel" /\ last' # last /\ Len(crawler.metadata_repo) = 0) =>
        /\ workbook' = workbook
        /\ crawler' = crawler
        /\ last'.ret = <<FALSE, NoDataText>>

\* C17: exporting an empty metadata repository never produces a corrupt
\* file: the export action of the interface refuses (writes nothing) while
\* the metadata sequence is empty, and export_to_excel called on an empty
\* crawler returns success with the three sections Data Dictionary, Metadata
\* Summary and Lineage Map, each holding its header row alone.
C17_EmptyExport == []EmptyExportIsHeadersOnly /\ [][EmptyGuiExportRefused]_vars

\* the interface has refused to export an empty crawler, after the engine
\* had written the workbook of the empty crawler
C17_Witness ==
    /\ last.op = "export_excel"
    /\ crawler = MetadataCrawler
    /\ last.ret = <<FALSE, NoDataText>>
    /\ workbook = Some(HeadersOnly)

-----------------------------------------------------------------------------
(* The interface: MetadataCrawlerGUI.  Its crawl methods start a daemon    *)
(* thread each; the threads call the crawl methods of self.crawler without *)
(* a lock and put their result on self.result_queue; _check_queue, on the  *)
(* main thread, takes the results and reports them; clear_data replaces    *)
(* self.crawler.  A thread is interleaved with the others between the      *)
(* statements of a crawl method that touch the crawler object.             *)

\* the most threads the interface starts, and the most times it clears
MaxThreads == 2

MaxClears == 1

\* what the user has entered when a crawl button is pressed
DatabaseSource(db, fault) ==
    [kind |-> "database", db |-> db, fault |-> fault, api |-> 0, response |-> 0, files |-> <<>>]

ApiSource(api, response) ==
    [kind |-> "api", db |-> 0, fault |-> NoFault, api |-> api, response |-> response,
     files |-> <<>>]

FileSource(files) ==
    [kind |-> "files", db |-> 0, fault |-> NoFault, api |-> 0, response |-> 0, files |-> files]

DatabaseSources == {DatabaseSource(2, fault) : fault \in DbFaults(Databases[2])}

ApiSources == {ApiSource(1, response) : response \in 1..Len(Apis[1].responses)}

\* the file list: empty, or three files of which the second does not exist
FileSources ==
    { FileSource(<<>>),
      FileSource(<<"/data/customers.csv", "/data/missing.csv", "/exports/customers">>) }

\* a thread: what it crawls, the crawler that was self.crawler when it was
\* started (started_in), where it stands (pc), the crawler object its
\* current call works on (obj), the file it is at (i), the record its call
\* has built and not yet entered (st), the results of its files (results) and
\* the objects their calls worked on (bound), the value its call returned
Thread(source, started_in) ==
    [source |-> source, started_in |-> started_in, pc |-> "start", obj |-> 0, i |-> 1,
     st |-> None, results |-> <<>>, bound |-> <<>>, ret |-> None]

\* threading.Thread(target=_crawl, daemon=True).start()
StartThread(source) ==
    /\ ~polling
    /\ Len(threads) < MaxThreads
    /\ threads' = Append(threads, Thread(source, current))
    /\ UNCHANGED <<objects, current, result_queue, puts, reported, polling>>
    /\ UNCHANGED <<crawler, before, clock, last, successes, dict_out, workbook, inferVars, alive>>

\* MetadataCrawlerGUI.crawl_database
StartDatabaseCrawl == \E source \in DatabaseSources : StartThread(source)

\* MetadataCrawlerGUI.crawl_api
StartApiCrawl == \E source \in ApiSources : StartThread(source)

\* MetadataCrawlerGUI.crawl_files: an empty list is refused with a warning
StartFileCrawl ==
    \E source \in FileSources :
        IF Len(source.files) = 0 THEN ~polling /\ UNCHANGED vars
        ELSE StartThread(source)

\* datetime.now(), in crawls started so far
Now == Len(threads)

\* the object o after thread t has changed it to c
Mutate(o, c, t) ==
    [objects EXCEPT ![o] = [crawler |-> c, touched |-> @.touched \cup {t}]]

\* the call of crawl_api or crawl_file a thread is about to make, run on a
\* crawler of its own: its return value, and the record and the node it
\* enters when it succeeds
LocalRun(th) ==
    IF th.source.kind = "api"
    THEN crawl_api(MetadataCrawler, Apis[th.source.api].url,
                   Apis[th.source.api].responses[th.source.response], Now)
    ELSE crawl_file(MetadataCrawler, th.source.files[th.i],
                    FileAt(th.source.files[th.i]), Now)

\* (mutant) the loop over the files ends at the first file that fails
NextFileOrBreak(th, ret) ==
    [th EXCEPT !.results = Append(@, ret),
               !.i = @ + 1,
               !.st = None,
               !.pc = IF th.i + 1 > Len(th.source.files) \/ ~ret[1] THEN "put" ELSE "start"]

\* results.append((success, message)) and the next round of the loop over
\* the files
NextFile(th, ret) ==
    [th EXCEPT !.results = Append(@, ret),
               !.i = @ + 1,
               !.st = None,
               !.pc = IF th.i + 1 > Len(th.source.files) THEN "put" ELSE "start"]

\* the thread after its call of a crawl method has returned ret
Finish(th, ret) ==
    IF th.source.kind = "files" THEN NextFile(th, ret)
    ELSE [th EXCEPT !.ret = Some(ret), !.st = None, !.pc = "put"]

\* the start of a call self.crawler.crawl_...(...): self.crawler is read, and
\* the method runs up to its first statement that changes the crawler, or to
\* the return of its except clause
ThreadBegin(t) ==
    LET th == threads[t]
        bound == [th EXCEPT !.obj = current, !.bound = Append(@, current)]
    IN  /\ th.pc = "start"
        /\ IF th.source.kind = "database"
           THEN LET db == Databases[th.source.db]
                    db_metadata == [source_type |-> "database",
                                    db_type |-> db.db_type,
                                    connection |-> db.connection,
                                    tables |-> <<>>,
                                    timestamp |-> Now]
                IN  IF th.source.fault.at = 0
                    THEN threads' = [threads EXCEPT ![t] =
                                        Finish(bound, DatabaseCrawlError(th.source.fault.error))]
                    ELSE threads' = [threads EXCEPT ![t] =
                                        [bound EXCEPT !.st = Some([record |-> db_metadata]),
                                                      !.pc = "table"]]
           ELSE LET r == LocalRun(th)
                    node == CHOOSE n \in DOMAIN r.self.lineage_graph.nodes : TRUE
                IN  IF r.ret[1]
                    THEN threads' = [threads EXCEPT ![t] =
                            [bound EXCEPT !.st = Some([record |-> r.self.metadata_repo[1],
                                                       node |-> node,
                                                       attr |-> r.self.lineage_graph.nodes[node],
                                                       ret |-> r.ret]),
                                          !.pc = "append"]]
                    ELSE threads' = [threads EXCEPT ![t] = Finish(bound, r.ret)]
        /\ UNCHANGED <<objects, current, result_queue, puts, reported, polling>>
        /\ UNCHANGED <<crawler, before, clock, last, successes, dict_out, workbook, inferVars, alive>>

\* one round of the loop over the tables in crawl_database
ThreadTable(t) ==
    LET th == threads[t]
        db == Databases[th.source.db]
    IN  /\ th.pc = "table"
        /\ IF th.i > Len(db.table_names)
           THEN /\ threads' = [threads EXCEPT ![t] = [th EXCEPT !.pc = "append"]]
                /\ UNCHANGED objects
           ELSE IF th.source.fault.at = th.i
           THEN /\ threads' = [threads EXCEPT ![t] =
                                  Finish(th, DatabaseCrawlError(th.source.fault.error))]
                /\ UNCHANGED objects
           ELSE LET st == ProcessTable([self |-> objects[th.obj].crawler,
                                        db_metadata |-> th.st[1].record,
                                        exc |-> None],
                                       db, db.connection, db.table_names[th.i])
                IN  /\ objects' = Mutate(th.obj, st.self, t)
                    /\ threads' = [threads EXCEPT ![t] =
                                      [th EXCEPT !.st = Some([record |-> st.db_metadata]),
                                                 !.i = @ + 1]]
        /\ UNCHANGED <<current, result_queue, puts, reported, polling>>
        /\ UNCHANGED <<crawler, before, clock, last, successes, dict_out, workbook, inferVars, alive>>

\* self.metadata_repo.append(...) of the call, and for crawl_database its
\* return
ThreadAppend(t) ==
    LET th == threads[t]
        record == th.st[1].record
    IN  /\ th.pc = "append"
        /\ objects' = Mutate(th.obj, AppendRecord(objects[th.obj].crawler, record), t)
        /\ threads' = [threads EXCEPT ![t] =
              IF th.source.kind = "database"
              THEN Finish(th, <<TRUE, "Successfully crawled "
                                         \o ToString(Len(record.tables)) \o " tables">>)
              ELSE [th EXCEPT !.pc = "node"]]
        /\ UNCHANGED <<current, result_queue, puts, reported, polling>>
        /\ UNCHANGED <<crawler, before, clock, last, successes, dict_out, workbook, inferVars, alive>>

\* self.lineage_graph.add_node(...) of crawl_api and crawl_file, and their
\* return
ThreadNode(t) ==
    LET th == threads[t]
        self == objects[th.obj].crawler
    IN  /\ th.pc = "node"
        /\ objects' = Mutate(th.obj,
                             [self EXCEPT !.lineage_graph =
                                 add_node(@, th.st[1].node, th.st[1].attr)],
                             t)
        /\ threads' = [threads EXCEPT ![t] = Finish(th, th.st[1].ret)]
        /\ UNCHANGED <<current, result_queue, puts, reported, polling>>
        /\ UNCHANGED <<crawler, before, clock, last, successes, dict_out, workbook, inferVars, alive>>

\* the message of a thread: its result tuple, with the thread that puts it
Message(t) ==
    LET th == threads[t]
    IN  [thread |-> t,
         result |-> IF th.source.kind = "files" THEN <<"files", th.results>>
                    ELSE <<th.source.kind, th.ret[1][1], th.ret[1][2]>>]

\* queue.put(message)
Put(queue, message) == Append(queue, message)

\* self.result_queue.put(...), the last statement of _crawl
ThreadPut(t) ==
    /\ threads[t].pc = "put"
    /\ result_queue' = Put(result_queue, Message(t))
    /\ puts' = Append(puts, Message(t))
    /\ threads' = [threads EXCEPT ![t] = [@ EXCEPT !.pc = "done"]]
    /\ UNCHANGED <<objects, current, reported, polling>>
    /\ UNCHANGED <<crawler, before, clock, last, successes, dict_out, workbook, inferVars, alive>>

ThreadStep(t) ==
    \/ ThreadBegin(t)
    \/ ThreadTable(t)
    \/ ThreadAppend(t)
    \/ ThreadNode(t)
    \/ ThreadPut(t)

RunThread == \E t \in 1..Len(threads) : ThreadStep(t)

\* MetadataCrawlerGUI.clear_data, the question answered with yes
ClearData ==
    /\ ~polling
    /\ current <= MaxClears
    /\ objects' = Append(objects, [crawler |-> MetadataCrawler, touched |-> {}])
    /\ current' = Len(objects) + 1
    /\ UNCHANGED <<threads, result_queue, puts, reported, polling>>
    /\ UNCHANGED <<crawler, before, clock, last, successes, dict_out, workbook, inferVars, alive>>

\* update_statistics, which ends the handling of every message, reads the
\* lineage graph of self.crawler (len(lineage_graph.edges()) walks the
\* adjacency dictionary) while a thread is at a statement that adds a node
\* or an edge to it: a read racing with a write
WritesGraph(th) ==
    \/ th.pc = "node"
    \/ /\ th.pc = "table"
       /\ th.i <= Len(Databases[th.source.db].table_names)
       /\ th.source.fault.at # th.i

UpdateStatisticsRaces ==
    \E t \in 1..Len(threads) : threads[t].obj = current /\ WritesGraph(threads[t])

\* _check_queue: get_nowait() returns a message, which is logged
CheckQueueGet ==
    /\ alive
    /\ Len(result_queue) > 0
    /\ reported' = Append(reported, Head(result_queue))
    /\ result_queue' = Tail(result_queue)
    /\ polling' = TRUE
    /\ UNCHANGED <<objects, current, threads, puts>>
    /\ UNCHANGED <<crawler, before, clock, last, successes, dict_out, workbook, inferVars, alive>>

\* _check_queue: get_nowait() raises queue.Empty, the loop ends and
\* self.root.after(100, self._check_queue) schedules the next run
CheckQueueEmpty ==
    /\ alive
    /\ Len(result_queue) = 0
    /\ polling' = FALSE
    /\ UNCHANGED <<objects, current, threads, result_queue, puts, reported>>
    /\ UNCHANGED <<crawler, before, clock, last, successes, dict_out, workbook, inferVars, alive>>

\* _check_queue: a message is taken and logged and update_statistics raises
\* (RuntimeError: dictionary changed size during iteration); the try
\* statement catches queue.Empty only, the exception leaves _check_queue
\* before self.root.after(...) and no further run is scheduled
CheckQueueRaise ==
    /\ alive
    /\ Len(result_queue) > 0
    /\ UpdateStatisticsRaces
    /\ reported' = Append(reported, Head(result_queue))
    /\ result_queue' = Tail(result_queue)
    /\ polling' = FALSE
    /\ alive' = FALSE
    /\ UNCHANGED <<objects, current, threads, puts>>
    /\ UNCHANGED <<crawler, before, clock, last, successes, dict_out, workbook, inferVars>>

NextGui ==
    \/ StartDatabaseCrawl
    \/ StartApiCrawl
    \/ StartFileCrawl
    \/ RunThread
    \/ ClearData
    \/ CheckQueueGet
    \/ CheckQueueEmpty
    \/ CheckQueueRaise

SpecGui == Init /\ [][NextGui]_vars

\* a run of _check_queue
CheckQueue == CheckQueueGet \/ CheckQueueEmpty \/ CheckQueueRaise

\* the Tk main loop runs _check_queue when it is scheduled
FairSpecGui == SpecGui /\ WF_vars(CheckQueue)

-----------------------------------------------------------------------------
(* C13 *)

\* crawl_file called on file_path alone, on a crawler of its own
Alone(file_path) == crawl_file(MetadataCrawler, file_path, FileAt(file_path), 0)

\* the record of the crawl of file_path alone is in metadata_repo of self,
\* whatever its timestamp, and its node is in the lineage graph of self
RecordedIn(self, file_path) ==
    /\ \E j \in 1..Len(self.metadata_repo) :
          self.metadata_repo[j] =
              [Alone(file_path).self.metadata_repo[1] EXCEPT
                  !.timestamp = self.metadata_repo[j].timestamp]
    /\ DOMAIN Alone(file_path).self.lineage_graph.nodes \subseteq DOMAIN self.lineage_graph.nodes

\* the messages thread t has put on the queue
PutsOf(t) == {k \in 1..Len(puts) : puts[k].thread = t}

\* C13: a batch crawl of n files gives, file by file in the order of the
\* list, the result the crawl of that file alone gives, whatever the files
\* before it did; it ends with n results, put as one message; and each file
\* that succeeded has its record in the metadata sequence and its node in the
\* lineage graph of the crawler its call worked on.
C13_BatchFilesIndependent ==
    \A t \in 1..Len(threads) :
        LET th == threads[t]
            files == th.source.files
        IN  th.source.kind = "files" =>
              /\ Len(th.results) <= Len(files)
              /\ th.pc \in {"put", "done"} => Len(th.results) = Len(files)
              /\ \A k \in 1..Len(th.results) :
                    /\ th.results[k] = Alone(files[k]).ret
                    /\ th.results[k][1] => RecordedIn(objects[th.bound[k]].crawler, files[k])
              /\ th.pc = "done" =>
                    /\ Cardinality(PutsOf(t)) = 1
                    /\ \A k \in PutsOf(t) : puts[k].result = <<"files", th.results>>

\* a batch has ended whose second file failed and whose third succeeded
C13_Witness ==
    \E t \in 1..Len(threads) :
        /\ threads[t].source.kind = "files"
        /\ threads[t].pc = "done"
        /\ Len(threads[t].results) = 3
        /\ threads[t].results[1][1]
        /\ ~threads[t].results[2][1]
        /\ threads[t].results[3][1]

-----------------------------------------------------------------------------
(* C18 *)

\* the threads that have entered something (a dictionary entry, a node, an
\* edge or a record) in the crawler object that is self.crawler now
Writers == objects[current].touched

\* C18: after Clear All Data, self.crawler holds only what crawls started
\* after the clear entered: every thread that has written to it was started
\* while it was self.crawler already, and none that was started before the
\* clear, running or not at the time of the clear, has.
C18_ClearedCrawlerHoldsLaterCrawlsOnly ==
    \A t \in Writers : threads[t].started_in = current

-----------------------------------------------------------------------------
(* C19 *)

\* a thread has put one message when it has ended, and none before
OneMessagePerCrawl ==
    \A t \in 1..Len(threads) :
        Cardinality(PutsOf(t)) = IF threads[t].pc = "done" THEN 1 ELSE 0

\* the messages reported, then those waiting, are the messages put, in the
\* order they were put
ReportedInOrderOnce == reported \o result_queue = puts

\* C19: every crawl whose thread ends puts exactly one message; every message
\* put is eventually taken and reported, in the order of the puts, none lost
\* and none twice; and _check_queue is always running or scheduled to run.
C19_EveryResultReported ==
    /\ []OneMessagePerCrawl
    /\ []ReportedInOrderOnce
    /\ \A k \in 1..MaxThreads : (Len(puts) >= k) ~> (Len(reported) >= k)
    /\ []alive

-----------------------------------------------------------------------------
(* C20 *)

\* the crawls of the file list one after another, as _crawl of crawl_files
\* runs them
RECURSIVE CrawlFilesFrom(_, _, _)
CrawlFilesFrom(self, files, k) ==
    IF k > Len(files) THEN self
    ELSE CrawlFilesFrom(crawl_file(self, files[k], FileAt(files[k]), 0).self, files, k + 1)

\* one crawl of the interface run alone on self, from its start to its end
RunAlone(self, source) ==
    CASE source.kind = "database" ->
            crawl_database(self, Databases[source.db].connection, Databases[source.db].db_type,
                           Databases[source.db], source.fault, 0).self
      [] source.kind = "api" ->
            crawl_api(self, Apis[source.api].url,
                      Apis[source.api].responses[source.response], 0).self
      [] OTHER -> CrawlFilesFrom(self, source.files, 1)

\* the crawls of the threads order[k], order[k + 1], ... one after another
RECURSIVE RunInOrder(_, _, _)
RunInOrder(self, order, k) ==
    IF k > Len(order) THEN self
    ELSE RunInOrder(RunAlone(self, threads[order[k]].source), order, k + 1)

\* the orders in which n crawls can run one after another
Orders(n) == {order \in [1..n -> 1..n] : \A i, j \in 1..n : order[i] = order[j] => i = j}

\* what the claim compares: the metadata sequence, whatever the times of the
\* crawls (the dictionary is derived from it), and the lineage graph
Outcome(self) ==
    [metadata_repo |-> [i \in 1..Len(self.metadata_repo) |->
                           [self.metadata_repo[i] EXCEPT !.timestamp = 0]],
     lineage_graph |-> self.lineage_graph]

\* every thread has ended and the crawler has not been cleared
AllCrawlsEnded ==
    /\ Len(threads) > 0
    /\ current = 1
    /\ \A t \in 1..Len(threads) : threads[t].pc = "done"

\* C20: when the crawls that ran in parallel have ended, the metadata
\* sequence and the lineage graph are those of the same crawls run one after
\* another in some order.
C20_InterleavingsAreSerializable ==
    AllCrawlsEnded =>
        \E order \in Orders(Len(threads)) :
            Outcome(objects[1].crawler) = Outcome(RunInOrder(MetadataCrawler, order, 1))

-----------------------------------------------------------------------------
(* C21 *)

\* the attributes of node n of the lineage graph of c
NodeData(c, n) == c.lineage_graph.nodes[n]

\* C21: after any crawls, successful or failed, every node of the lineage
\* graph carries node_type and source, node_type being table, api or file,
\* and the target of every foreign-key edge is a node tagged table, which
\* get_lineage_visualization_data never reports as 'unknown'.
C21_EveryNodeTagged ==
    /\ \A n \in NodeSet(crawler) :
          /\ {"node_type", "source"} \subseteq DOMAIN NodeData(crawler, n)
          /\ NodeData(crawler, n).node_type \in {"table", "api", "file"}
    /\ \A e \in EdgeSet(crawler) : NodeType(crawler, e[2]) = "table"

=============================================================================
